---------------------------- MODULE Spec2Model ----------------------------
(***************************************************************************)
(* Model of the portfolio analytics service in                             *)
(* src/bond-stock-portfolio/app.py: the metrics calculator                 *)
(* (calculate_metrics, calculate_beta), the PnL derivation and the three   *)
(* aggregating routes (portfolio_history, account_summary, risk_metrics).  *)
(*                                                                         *)
(* Numbers.  The code computes in IEEE floating point through numpy.  The  *)
(* model computes in exact rational arithmetic extended with the           *)
(* non-finite values numpy produces on a division by zero (inf, -inf, nan  *)
(* with a warning, never an exception).  Rounding is not modelled.         *)
(* A square root is kept symbolic (see Surd).                              *)
(***************************************************************************)
EXTENDS Integers, Sequences, FiniteSets

VARIABLES
    accounts,           \* the registry load_accounts_from_config returns
    broker,             \* what the brokerage answers for each account
    market,             \* what the brokerage answers for index symbols
    equity_values,      \* argument of calculate_metrics
    portfolio_returns,  \* argument of calculate_beta
    benchmark_returns,  \* argument of calculate_beta
    result              \* the value the last call returned

vars == <<accounts, broker, market, equity_values, portfolio_returns,
          benchmark_returns, result>>

(***************************************************************************)
(* Bounds of the model.                                                    *)
(***************************************************************************)
MaxCurve == 3       \* longest equity curve given to calculate_metrics
MaxReturns == 3     \* longest return series given to calculate_beta
MaxAccounts == 2    \* most accounts in the registry
MaxPositions == 6   \* most positions ranked by risk_metrics
MaxHeld == 2        \* most positions of one account in the allocation rollup

EquityValues == {0, 1, 2, 4}
ReturnValues == {-1, 0, 2}

(***************************************************************************)
(* Program constants.                                                      *)
(***************************************************************************)
TradingDays == 252  \* np.sqrt(252)
Percent == 100      \* "* 100"
TopN == 5           \* [:5]

(***************************************************************************)
(* Sequence helpers.                                                       *)
(***************************************************************************)
SeqsUpTo(S, n) == UNION {[1..k -> S] : k \in 0..n}

Min2(a, b) == IF a <= b THEN a ELSE b

Abs(n) == IF n < 0 THEN -n ELSE n

RECURSIVE GCD(_, _)
GCD(a, b) == IF b = 0 THEN a ELSE GCD(b, a % b)

(***************************************************************************)
(* Floating-point values: a finite rational n/d in lowest terms (d > 0),   *)
(* or inf (n = 1), -inf (n = -1), or nan.                                  *)
(***************************************************************************)
Fin(n, d) ==
    LET s == IF d < 0 THEN -1 ELSE 1
        g == GCD(Abs(n), Abs(d))
    IN  [k |-> "fin", n |-> (s * n) \div g, d |-> (s * d) \div g]

FInt(n) == [k |-> "fin", n |-> n, d |-> 1]
NaN == [k |-> "nan", n |-> 0, d |-> 1]
Inf(s) == [k |-> "inf", n |-> s, d |-> 1]
Zero == FInt(0)

Sign(n) == IF n > 0 THEN 1 ELSE IF n < 0 THEN -1 ELSE 0

IsFin(a) == a.k = "fin"
IsNaN(a) == a.k = "nan"
IsZero(a) == a.k = "fin" /\ a.n = 0

FNeg(a) == [a EXCEPT !.n = -a.n]

FAdd(a, b) ==
    IF IsNaN(a) \/ IsNaN(b) THEN NaN
    ELSE IF a.k = "inf" /\ b.k = "inf" THEN (IF a.n = b.n THEN a ELSE NaN)
    ELSE IF a.k = "inf" THEN a
    ELSE IF b.k = "inf" THEN b
    ELSE Fin(a.n * b.d + b.n * a.d, a.d * b.d)

FSub(a, b) == FAdd(a, FNeg(b))

FMul(a, b) ==
    IF IsNaN(a) \/ IsNaN(b) THEN NaN
    ELSE IF a.k = "inf" \/ b.k = "inf"
         THEN (IF a.n = 0 \/ b.n = 0 THEN NaN ELSE Inf(Sign(a.n) * Sign(b.n)))
    ELSE Fin(a.n * b.n, a.d * b.d)

\* numpy's true division: x/0 is inf with the sign of x, 0/0 is nan.
FDiv(a, b) ==
    IF IsNaN(a) \/ IsNaN(b) THEN NaN
    ELSE IF a.k = "inf" /\ b.k = "inf" THEN NaN
    ELSE IF a.k = "inf" THEN Inf(IF b.n < 0 THEN -a.n ELSE a.n)
    ELSE IF b.k = "inf" THEN Zero
    ELSE IF b.n = 0 THEN (IF a.n = 0 THEN NaN ELSE Inf(Sign(a.n)))
    ELSE Fin(a.n * b.d, a.d * b.n)

\* a < b; every comparison with nan is false.
FLt(a, b) ==
    IF IsNaN(a) \/ IsNaN(b) THEN FALSE
    ELSE IF a.k = "inf" THEN a.n = -1 /\ ~(b.k = "inf" /\ b.n = -1)
    ELSE IF b.k = "inf" THEN b.n = 1
    ELSE a.n * b.d < b.n * a.d

FGt(a, b) == FLt(b, a)
FLe(a, b) == ~IsNaN(a) /\ ~IsNaN(b) /\ ~FLt(b, a)

\* np.maximum and np.minimum: nan if either operand is nan.
FMax(a, b) == IF IsNaN(a) \/ IsNaN(b) THEN NaN ELSE IF FLt(a, b) THEN b ELSE a
FMin(a, b) == IF IsNaN(a) \/ IsNaN(b) THEN NaN ELSE IF FLt(b, a) THEN b ELSE a

RECURSIVE FSum(_)
FSum(xs) == IF xs = <<>> THEN Zero ELSE FAdd(Head(xs), FSum(Tail(xs)))

RECURSIVE FMinOf(_)
FMinOf(xs) == IF Len(xs) = 1 THEN xs[1] ELSE FMin(xs[1], FMinOf(Tail(xs)))

\* np.mean, np.var (ddof = 0) and np.cov (ddof = 1) of non-empty series.
np_mean(xs) == FDiv(FSum(xs), FInt(Len(xs)))

np_var(xs) ==
    LET m == np_mean(xs)
    IN  np_mean([i \in 1..Len(xs) |-> FMul(FSub(xs[i], m), FSub(xs[i], m))])

np_cov(xs, ys) ==
    LET mx == np_mean(xs)
        my == np_mean(ys)
    IN  FDiv(FSum([i \in 1..Len(xs) |-> FMul(FSub(xs[i], mx), FSub(ys[i], my))]),
             FInt(Len(xs) - 1))

(***************************************************************************)
(* Surd(c, r) stands for the number c * sqrt(r): np.std is the square root *)
(* of np_var, which is kept under the root sign so the value stays exact.  *)
(***************************************************************************)
Surd(c, r) == [coef |-> c, rad |-> r]

SurdIsNaN(s) == IsNaN(FMul(s.coef, s.rad))
SurdIsZero(s) == ~SurdIsNaN(s) /\ (IsZero(s.coef) \/ IsZero(s.rad))

\* np.std(xs) > 0
StdPositive(xs) == FGt(np_var(xs), Zero)

(***************************************************************************)
(* calculate_metrics                                                       *)
(***************************************************************************)
\* np.diff(equity_array) / equity_array[:-1]
Returns(eq) ==
    [i \in 1..(Len(eq) - 1) |-> FDiv(FSub(FInt(eq[i + 1]), FInt(eq[i])), FInt(eq[i]))]

\* np.cumprod(1 + returns)
RECURSIVE CumProd(_, _)
CumProd(rs, i) ==
    IF i = 1 THEN FAdd(FInt(1), rs[1])
    ELSE FMul(CumProd(rs, i - 1), FAdd(FInt(1), rs[i]))

\* np.maximum.accumulate(cumulative)
RECURSIVE RunningMax(_, _)
RunningMax(cum, i) ==
    IF i = 1 THEN cum[1] ELSE FMax(RunningMax(cum, i - 1), cum[i])

Drawdown(rs) ==
    LET cumulative == [i \in 1..Len(rs) |-> CumProd(rs, i)]
        running_max == [i \in 1..Len(rs) |-> RunningMax(cumulative, i)]
    IN  [i \in 1..Len(rs) |->
            FDiv(FSub(cumulative[i], running_max[i]), running_max[i])]

ZeroMetrics ==
    [volatility |-> Surd(Zero, Zero), sharpe_ratio |-> Surd(Zero, Zero),
     max_drawdown |-> Zero]

\* np.std(returns) * np.sqrt(252) * 100  =  100 * sqrt(252 * var)
Volatility(returns) ==
    Surd(FInt(Percent), FMul(FInt(TradingDays), np_var(returns)))

SharpeRatio_unguarded(returns) ==
    Surd(FDiv(np_mean(returns), np_var(returns)),
         FMul(FInt(TradingDays), np_var(returns)))

\* (mean / std) * sqrt(252) if std > 0 else 0.0, with
\* mean / std * sqrt(252) = (mean / var) * sqrt(252 * var)
SharpeRatio(returns) ==
    IF StdPositive(returns)
    THEN Surd(FDiv(np_mean(returns), np_var(returns)),
              FMul(FInt(TradingDays), np_var(returns)))
    ELSE Surd(Zero, Zero)

\* np.min(drawdown) * 100
MaxDrawdown(returns) ==
    FMul(FMinOf(Drawdown(returns)), FInt(Percent))

calculate_metrics(eq) ==
    IF Len(eq) < 2 THEN ZeroMetrics
    ELSE LET returns == Returns(eq)
         IN  [volatility |-> Volatility(returns),
              sharpe_ratio |-> SharpeRatio(returns),
              max_drawdown |-> MaxDrawdown(returns)]

(***************************************************************************)
(* calculate_beta                                                          *)
(***************************************************************************)
Take(xs, n) == SubSeq(xs, 1, n)

calculate_beta_no_variance_guard(p, b) ==
    IF Len(p) # Len(b) \/ Len(p) < 2 THEN Zero
    ELSE LET min_len == Min2(Len(p), Len(b))
             p_ret == Take(p, min_len)
             b_ret == Take(b, min_len)
         IN  FDiv(np_cov(p_ret, b_ret), np_var(b_ret))

calculate_beta(p, b) ==
    IF Len(p) # Len(b) \/ Len(p) < 2 THEN Zero
    ELSE LET min_len == Min2(Len(p), Len(b))
             p_ret == Take(p, min_len)
             b_ret == Take(b, min_len)
             covariance == np_cov(p_ret, b_ret)
             variance == np_var(b_ret)
         IN  IF FGt(variance, Zero) THEN FDiv(covariance, variance) ELSE Zero

(***************************************************************************)
(* get_portfolio_history.  An account is identified by its name; broker    *)
(* [name] is what the brokerage holds for it:                              *)
(*   fault       the call or field that raises for this account, or "none" *)
(*   equity, timestamp          the portfolio history                     *)
(*   snapshot    equity, cash, buying_power, portfolio_value, last_equity  *)
(*   positions   the open positions                                        *)
(***************************************************************************)
Snapshot(e, c, b, v, l) ==
    [equity |-> e, cash |-> c, buying_power |-> b, portfolio_value |-> v,
     last_equity |-> l]

AccountData(f, eq, ts, snap, pos) ==
    [fault |-> f, equity |-> eq, timestamp |-> ts, snapshot |-> snap,
     positions |-> pos]

\* A position as the brokerage sends it; bad names the field float() cannot
\* parse (it raises there), or is "none".
RawPosition(sym, mv, plpc, chg, bad) ==
    [symbol |-> sym, market_value |-> mv, unrealized_plpc |-> plpc,
     change_today |-> chg, bad |-> bad]

\* datetime.fromtimestamp(ts).strftime("%Y-%m-%d %H:%M"): the minute of ts
\* (seconds are dropped), as text.
FormatTimestamp(ts) == <<"%Y-%m-%d %H:%M", ts \div 60>>

\* lines 67-69: pnl_values
PnlValues(eq) ==
    LET initial_equity == IF eq # <<>> THEN eq[1] ELSE 0
    IN  [i \in 1..Len(eq) |-> FSub(FInt(eq[i]), FInt(initial_equity))]

PnlPctValues_unguarded(eq) ==
    LET initial_equity == IF eq # <<>> THEN eq[1] ELSE 0
    IN  [i \in 1..Len(eq) |->
            FMul(FDiv(FSub(FInt(eq[i]), FInt(initial_equity)),
                      FInt(initial_equity)), FInt(Percent))]

\* line 70
PnlPctValues(eq) ==
    LET initial_equity == IF eq # <<>> THEN eq[1] ELSE 0
    IN  [i \in 1..Len(eq) |->
            IF initial_equity > 0
            THEN FMul(FDiv(FSub(FInt(eq[i]), FInt(initial_equity)),
                           FInt(initial_equity)), FInt(Percent))
            ELSE Zero]

HistoryError(account, e) ==
    [name |-> account, timestamps |-> <<>>, equity |-> <<>>, pnl |-> <<>>,
     pnl_pct |-> <<>>, volatility |-> ZeroMetrics.volatility,
     sharpe_ratio |-> ZeroMetrics.sharpe_ratio,
     max_drawdown |-> ZeroMetrics.max_drawdown, error |-> e]

HistoryFaults == {"get_portfolio_history", "get_account", "float"}

get_portfolio_history(account, period, timeframe) ==
    LET data == broker[account]
        metrics == calculate_metrics(data.equity)
    IN  IF data.fault \in HistoryFaults
        THEN HistoryError(account, data.fault)
        ELSE [name |-> account,
              timestamps |-> [i \in 1..Len(data.timestamp) |->
                                 FormatTimestamp(data.timestamp[i])],
              equity |-> data.equity,
              pnl |-> PnlValues(data.equity),
              pnl_pct |-> PnlPctValues(data.equity),
              current_equity |-> data.snapshot.equity,
              current_cash |-> data.snapshot.cash,
              buying_power |-> data.snapshot.buying_power,
              volatility |-> metrics.volatility,
              sharpe_ratio |-> metrics.sharpe_ratio,
              max_drawdown |-> metrics.max_drawdown]

(***************************************************************************)
(* get_benchmark_history.  market is what the brokerage answers for an     *)
(* index symbol: bars (each a timestamp and a close) and the latest trade, *)
(* either of which may raise.  {} is the empty record <<>>.                *)
(***************************************************************************)
Market(bf, bs, tf, pr) ==
    [bars_fault |-> bf, bars |-> bs, trade_fault |-> tf, price |-> pr]

Bar(t, c) == [t |-> t, close |-> c]

get_benchmark_history(symbol, period, timeframe) ==
    IF accounts = <<>> THEN <<>>
    ELSE IF market.bars_fault THEN <<>>
    ELSE IF market.bars = <<>> THEN <<>>
    ELSE [symbol |-> symbol,
          timestamps |-> [i \in 1..Len(market.bars) |->
                             FormatTimestamp(market.bars[i].t)],
          close |-> [i \in 1..Len(market.bars) |-> market.bars[i].close]]

(***************************************************************************)
(* portfolio_history                                                       *)
(***************************************************************************)
Periods == {"1D", "1W", "1M", "3M", "1Y", "all"}

\* timeframe_map.get(period, "1D")
Timeframe(period) ==
    CASE period = "1D" -> "5Min"
      [] period = "1W" -> "1H"
      [] period = "1M" -> "1D"
      [] period = "3M" -> "1D"
      [] period = "1Y" -> "1D"
      [] period = "all" -> "1W"
      [] OTHER -> "1D"

HasError(rec) == "error" \in DOMAIN rec

Histories_dropping_failed(period, timeframe) ==
    SelectSeq([i \in 1..Len(accounts) |->
                  get_portfolio_history(accounts[i], period, timeframe)],
              LAMBDA rec : ~HasError(rec))

\* line 189
Histories(period, timeframe) ==
    [i \in 1..Len(accounts) |->
        get_portfolio_history(accounts[i], period, timeframe)]

portfolio_history(period, benchmark_symbol) ==
    LET timeframe == Timeframe(period)
    IN  IF accounts = <<>>
        THEN [status |-> 404, body |-> [error |-> "No accounts configured"]]
        ELSE [status |-> 200,
              body |-> [accounts |-> Histories(period, timeframe),
                        benchmark |->
                            IF benchmark_symbol # "None"
                            THEN get_benchmark_history(benchmark_symbol,
                                                       period, timeframe)
                            ELSE <<>>]]

(***************************************************************************)
(* account_summary                                                         *)
(***************************************************************************)
SummaryFaults == {"get_account", "list_positions", "float"}

\* The body of the loop over the accounts: one record for the account.
AccountSummary(account) ==
    LET data == broker[account]
        acc_info == data.snapshot
        day_pnl == acc_info.equity - acc_info.last_equity
    IN  IF data.fault \in SummaryFaults
        THEN [name |-> account, error |-> data.fault]
        ELSE [name |-> account,
              equity |-> acc_info.equity,
              cash |-> acc_info.cash,
              buying_power |-> acc_info.buying_power,
              portfolio_value |-> acc_info.portfolio_value,
              positions_count |-> Len(data.positions),
              day_profit_loss |-> day_pnl,
              day_profit_loss_pct |->
                  IF acc_info.last_equity > 0
                  THEN FMul(Fin(day_pnl, acc_info.last_equity), FInt(Percent))
                  ELSE Zero]

Summaries_stopping_at_failure(accts) ==
    LET recs == [i \in 1..Len(accts) |-> AccountSummary(accts[i])]
        bad == {i \in 1..Len(accts) : HasError(recs[i])}
    IN  IF bad = {} THEN recs
        ELSE SubSeq(recs, 1, (CHOOSE i \in bad : \A j \in bad : i <= j) - 1)

\* lines 200-228
Summaries(accts) ==
    [i \in 1..Len(accts) |-> AccountSummary(accts[i])]

\* lines 230-249: the market entry, or nothing when a call raises, there
\* are no accounts or there are fewer than two bars.
MarketEntry ==
    IF accounts = <<>> \/ market.trade_fault \/ market.bars_fault
           \/ Len(market.bars) < 2
    THEN <<>>
    ELSE LET prev_close == market.bars[Len(market.bars) - 1].close
             current_price == market.price
             spy_change == current_price - prev_close
         IN  <<[name |-> "S&P 500 (SPY)",
                equity |-> current_price,
                day_profit_loss |-> spy_change,
                day_profit_loss_pct |->
                    FMul(FDiv(FInt(spy_change), FInt(prev_close)),
                         FInt(Percent)),
                is_market |-> TRUE]>>

account_summary == Summaries(accounts) \o MarketEntry

(***************************************************************************)
(* get_asset_class and risk_metrics                                        *)
(***************************************************************************)
get_asset_class(symbol) ==
    IF symbol \in {"VOO", "QQQ", "VEA", "VWO"} THEN "Equity"
    ELSE IF symbol \in {"VTEB", "TIP", "IEF", "SHYG", "BND"} THEN "Fixed Income"
    ELSE IF symbol \in {"VNQ"} THEN "Real Estate"
    ELSE IF symbol \in {"GLD"} THEN "Commodities"
    ELSE "Other"

AllocationKeys ==
    {"Equity", "Fixed Income", "Real Estate", "Commodities", "Other", "Cash"}

\* lines 272-281
EmptyRollup ==
    [asset_allocation |-> [key \in AllocationKeys |-> 0], all_positions |-> <<>>]

RiskFaults == {"list_positions", "get_account", "float"}

\* lines 296-312: the loop over one account's positions, from position i.
\* float() of a bad field raises, which ends the account's try block with
\* what was added so far.
RECURSIVE AddPositions(_, _, _, _)
AddPositions(st, positions, account, i) ==
    IF i > Len(positions) THEN st
    ELSE LET pos == positions[i]
             asset_class == get_asset_class(pos.symbol)
             bucket == IF asset_class \in DOMAIN st.asset_allocation
                       THEN asset_class ELSE "Other"
             added == [st EXCEPT !.asset_allocation[bucket] = @ + pos.market_value]
         IN  IF pos.bad = "market_value" THEN st
             ELSE IF pos.bad \in {"unrealized_plpc", "change_today"} THEN added
             ELSE AddPositions(
                      [added EXCEPT !.all_positions =
                          Append(@, [symbol |-> pos.symbol,
                                     market_value |-> pos.market_value,
                                     pl_pct |-> pos.unrealized_plpc * Percent,
                                     pl_day_pct |-> pos.change_today * Percent,
                                     account |-> account])],
                      positions, account, i + 1)

\* lines 290-315: one account's try block.
AddAccount(st, account) ==
    LET data == broker[account]
    IN  IF data.fault \in RiskFaults THEN st
        ELSE AddPositions(
                 [st EXCEPT !.asset_allocation["Cash"] = @ + data.snapshot.cash],
                 data.positions, account, 1)

\* lines 283-315: the loop over the first n accounts.
RECURSIVE Rollup(_, _)
Rollup(accts, n) ==
    IF n = 0 THEN EmptyRollup ELSE AddAccount(Rollup(accts, n - 1), accts[n])

Reverse(xs) == [i \in 1..Len(xs) |-> xs[Len(xs) + 1 - i]]

\* list.sort by key pl_day_pct: stable, ascending.
RECURSIVE InsertSorted(_, _)
InsertSorted(x, xs) ==
    IF xs = <<>> THEN <<x>>
    ELSE IF Head(xs).pl_day_pct <= x.pl_day_pct
         THEN <<Head(xs)>> \o InsertSorted(x, Tail(xs))
         ELSE <<x>> \o xs

RECURSIVE StableSort(_, _)
StableSort(xs, n) ==
    IF n = 0 THEN <<>> ELSE InsertSorted(xs[n], StableSort(xs, n - 1))

sorted_reversing_the_result(xs, reverse) ==
    IF reverse THEN Reverse(StableSort(xs, Len(xs))) ELSE StableSort(xs, Len(xs))

\* sorted(xs, key=pl_day_pct, reverse=reverse): with reverse, the list is
\* reversed before and after the stable sort, which keeps equal keys in
\* their original order.
sorted(xs, reverse) ==
    IF reverse
    THEN Reverse(StableSort(Reverse(xs), Len(xs)))
    ELSE StableSort(xs, Len(xs))

\* xs[:5]
Top(xs) == Take(xs, Min2(TopN, Len(xs)))

\* accts is the registry load_accounts_from_config returns (line 270).
risk_metrics(accts) ==
    LET st == Rollup(accts, Len(accts))
    IN  [allocation |-> st.asset_allocation,
         top_gainers |-> Top(sorted(st.all_positions, TRUE)),
         top_losers |-> Top(sorted(st.all_positions, FALSE))]

(***************************************************************************)
(* Initial values shared by the specifications.                            *)
(***************************************************************************)
NoResult == [op |-> "none", value |-> <<>>]
NoMarket == [bars_fault |-> FALSE, bars |-> <<>>, trade_fault |-> FALSE, price |-> 0]
DefaultSnapshot == Snapshot(4, 1, 2, 4, 2)

AccountName(i) == <<"acct", i>>

(***************************************************************************)
(* SpecMetrics: calculate_metrics, and get_portfolio_history of one        *)
(* account, over every bounded equity curve.                               *)
(***************************************************************************)
Curves == SeqsUpTo(EquityValues, MaxCurve)

InitMetrics ==
    /\ equity_values \in Curves
    /\ accounts = <<AccountName(1)>>
    /\ broker = [a \in {AccountName(1)} |->
                    AccountData("none", equity_values,
                                [i \in 1..Len(equity_values) |-> 60 * i + 30],
                                DefaultSnapshot, <<>>)]
    /\ market = NoMarket
    /\ portfolio_returns = <<>>
    /\ benchmark_returns = <<>>
    /\ result = NoResult

CalculateMetrics ==
    /\ result' = [op |-> "calculate_metrics",
                  value |-> calculate_metrics(equity_values)]
    /\ UNCHANGED <<accounts, broker, market, equity_values, portfolio_returns,
                   benchmark_returns>>

GetPortfolioHistory ==
    /\ \E i \in 1..Len(accounts) :
          result' = [op |-> "get_portfolio_history",
                     value |-> get_portfolio_history(accounts[i], "1M", "1D")]
    /\ UNCHANGED <<accounts, broker, market, equity_values, portfolio_returns,
                   benchmark_returns>>

NextMetrics == CalculateMetrics \/ GetPortfolioHistory

SpecMetrics == InitMetrics /\ [][NextMetrics]_vars

(***************************************************************************)
(* SpecBeta: calculate_beta over every bounded pair of return series.      *)
(***************************************************************************)
ReturnSeries == SeqsUpTo({FInt(v) : v \in ReturnValues}, MaxReturns)

InitBeta ==
    /\ portfolio_returns \in ReturnSeries
    /\ benchmark_returns \in ReturnSeries
    /\ accounts = <<>>
    /\ broker = <<>>
    /\ market = NoMarket
    /\ equity_values = <<>>
    /\ result = NoResult

CalculateBeta ==
    /\ result' = [op |-> "calculate_beta",
                  value |-> calculate_beta(portfolio_returns, benchmark_returns)]
    /\ UNCHANGED <<accounts, broker, market, equity_values, portfolio_returns,
                   benchmark_returns>>

NextBeta == CalculateBeta

SpecBeta == InitBeta /\ [][NextBeta]_vars

(***************************************************************************)
(* SpecHistory: the portfolio_history route over every bounded registry.   *)
(***************************************************************************)
Registry(n) == [i \in 1..n |-> AccountName(i)]

Names(n) == {AccountName(i) : i \in 1..n}

Markets ==
    {Market(FALSE, <<Bar(60, 3), Bar(120, 4)>>, FALSE, 5),
     Market(FALSE, <<Bar(60, 3), Bar(120, 4)>>, TRUE, 5),
     Market(FALSE, <<Bar(60, 3)>>, FALSE, 5),
     Market(FALSE, <<>>, FALSE, 5),
     Market(TRUE, <<>>, FALSE, 5)}

HistoryCurves == {<<2, 4, 2>>, <<1>>}

HistoryData ==
    {AccountData(f, eq, [i \in 1..Len(eq) |-> 60 * i + 30], DefaultSnapshot, <<>>) :
        f \in {"none"} \cup HistoryFaults, eq \in HistoryCurves}

InitHistory ==
    /\ \E n \in 0..MaxAccounts :
          /\ accounts = Registry(n)
          /\ broker \in [Names(n) -> HistoryData]
    /\ market \in Markets
    /\ equity_values = <<>>
    /\ portfolio_returns = <<>>
    /\ benchmark_returns = <<>>
    /\ result = NoResult

PortfolioHistory ==
    /\ \E period \in Periods \cup {"5Y"}, benchmark_symbol \in {"SPY", "None"} :
          result' = [op |-> "portfolio_history",
                     value |-> portfolio_history(period, benchmark_symbol)]
    /\ UNCHANGED <<accounts, broker, market, equity_values, portfolio_returns,
                   benchmark_returns>>

NextHistory == PortfolioHistory

SpecHistory == InitHistory /\ [][NextHistory]_vars

(***************************************************************************)
(* SpecSummary: the account_summary route over every bounded registry.     *)
(***************************************************************************)
SummaryData ==
    {AccountData(f, <<>>, <<>>, Snapshot(4, 1, 2, 4, l), pos) :
        f \in {"none"} \cup SummaryFaults,
        l \in {0, 2},
        pos \in {<<>>, <<RawPosition("VOO", 3, 1, 1, "none")>>}}

InitSummary ==
    /\ \E n \in 0..MaxAccounts :
          /\ accounts = Registry(n)
          /\ broker \in [Names(n) -> SummaryData]
    /\ market \in Markets
    /\ equity_values = <<>>
    /\ portfolio_returns = <<>>
    /\ benchmark_returns = <<>>
    /\ result = NoResult

AccountSummaryRoute ==
    /\ result' = [op |-> "account_summary", value |-> account_summary]
    /\ UNCHANGED <<accounts, broker, market, equity_values, portfolio_returns,
                   benchmark_returns>>

NextSummary == AccountSummaryRoute

SpecSummary == InitSummary /\ [][NextSummary]_vars

(***************************************************************************)
(* The action of both risk specifications: the risk_metrics route.         *)
(***************************************************************************)
RiskMetrics ==
    /\ result' = [op |-> "risk_metrics", value |-> risk_metrics(accounts)]
    /\ UNCHANGED <<accounts, broker, market, equity_values, portfolio_returns,
                   benchmark_returns>>

(***************************************************************************)
(* SpecRanking: risk_metrics over every bounded list of well-formed        *)
(* positions, held by two accounts (the first cut of them by the first).   *)
(***************************************************************************)
RankKinds ==
    {RawPosition("VOO", 3, 2, 1, "none"),
     RawPosition("GLD", 2, 0, 1, "none"),
     RawPosition("BND", 1, 1, -1, "none")}

InitRanking ==
    /\ accounts = Registry(2)
    /\ \E held \in SeqsUpTo(RankKinds, MaxPositions) :
          \E cut \in 0..Len(held) :
              broker = [a \in Names(2) |->
                           AccountData("none", <<>>, <<>>, DefaultSnapshot,
                                       IF a = AccountName(1)
                                       THEN SubSeq(held, 1, cut)
                                       ELSE SubSeq(held, cut + 1, Len(held)))]
    /\ market = NoMarket
    /\ equity_values = <<>>
    /\ portfolio_returns = <<>>
    /\ benchmark_returns = <<>>
    /\ result = NoResult

NextRanking == RiskMetrics

SpecRanking == InitRanking /\ [][NextRanking]_vars

(***************************************************************************)
(* SpecRisk: risk_metrics over every bounded registry, with accounts whose *)
(* calls raise and positions whose fields do not parse.                    *)
(***************************************************************************)
RiskKinds ==
    {RawPosition("VOO", 3, 2, 1, "none"),
     RawPosition("BND", 1, 1, -1, "none"),
     RawPosition("GLD", 2, 0, 1, "none"),
     RawPosition("TSLA", 5, 1, 2, "none"),
     RawPosition("VNQ", 4, 1, 0, "change_today"),
     RawPosition("TIP", 6, 0, 1, "unrealized_plpc"),
     RawPosition("QQQ", 0, 1, 1, "market_value")}

RiskData ==
    {AccountData(f, <<>>, <<>>, DefaultSnapshot, pos) :
        f \in {"none"} \cup RiskFaults, pos \in SeqsUpTo(RiskKinds, MaxHeld)}

InitRisk ==
    /\ \E n \in 0..MaxAccounts :
          /\ accounts = Registry(n)
          /\ broker \in [Names(n) -> RiskData]
    /\ market = NoMarket
    /\ equity_values = <<>>
    /\ portfolio_returns = <<>>
    /\ benchmark_returns = <<>>
    /\ result = NoResult

NextRisk == RiskMetrics

SpecRisk == InitRisk /\ [][NextRisk]_vars

(***************************************************************************)
(* Claims about calculate_metrics and the PnL derivation (SpecMetrics).    *)
(***************************************************************************)
MetricsDone == result.op = "calculate_metrics"

AllZeroMetrics(m) ==
    /\ SurdIsZero(m.volatility)
    /\ SurdIsZero(m.sharpe_ratio)
    /\ IsZero(m.max_drawdown)

\* The return series of the curve has zero variance: np.std(returns) == 0.
ZeroVariance(eq) == Len(eq) >= 2 /\ IsZero(np_var(Returns(eq)))

NonDecreasing(eq) == \A i \in 1..(Len(eq) - 1) : eq[i] <= eq[i + 1]

Positive(eq) == \A i \in 1..Len(eq) : eq[i] > 0

C6_DrawdownSign ==
    MetricsDone =>
        /\ FLe(result.value.max_drawdown, Zero)
        /\ NonDecreasing(equity_values) => IsZero(result.value.max_drawdown)

\* C8: pnl and pnl_pct are as long as the curve, pnl[i] = equity[i] -
\* equity[0] (so pnl[0] = 0), and pnl_pct is 0 everywhere when equity[0] = 0.
C8_PnlDerivation ==
    result.op = "get_portfolio_history" =>
        LET eq == equity_values
            r == result.value
        IN  /\ Len(r.pnl) = Len(eq)
            /\ Len(r.pnl_pct) = Len(eq)
            /\ \A i \in 1..Len(eq) : r.pnl[i] = FInt(eq[i] - eq[1])
            /\ eq # <<>> => r.pnl[1] = Zero
            /\ (eq # <<>> /\ eq[1] = 0) =>
                  \A i \in 1..Len(eq) : r.pnl_pct[i] = Zero

C8_Witness ==
    /\ result.op = "get_portfolio_history"
    /\ Len(equity_values) = 3
    /\ equity_values[1] = 0
    /\ equity_values[3] = 4
    /\ result.value.pnl[3] = FInt(4)
    /\ result.value.pnl_pct[3] = Zero

(***************************************************************************)
(* Claims about calculate_beta (SpecBeta).                                 *)
(***************************************************************************)
BetaDone == result.op = "calculate_beta"

Constant(xs) == \A i \in 1..Len(xs) : xs[i] = xs[1]

PopulationCov(xs, ys) ==
    LET mx == np_mean(xs)
        my == np_mean(ys)
    IN  np_mean([i \in 1..Len(xs) |-> FMul(FSub(xs[i], mx), FSub(ys[i], my))])

\* C9: for equal lengths >= 2 and a benchmark of non-zero variance, beta is
\* covariance / variance under one normalisation (divisor n), so the beta of
\* a non-constant series against itself is 1.
C9_ConsistentBeta ==
    LET p == portfolio_returns
        b == benchmark_returns
    IN  (BetaDone /\ Len(p) = Len(b) /\ Len(b) >= 2 /\ ~Constant(b)) =>
            /\ result.value = FDiv(PopulationCov(p, b), np_var(b))
            /\ p = b => result.value = FInt(1)

(***************************************************************************)
(* Claims about portfolio_history (SpecHistory).                           *)
(***************************************************************************)
HistoryFaulty(a) == broker[a].fault \in HistoryFaults

ExactlyOne(P(_)) == Cardinality({i \in 1..Len(accounts) : P(accounts[i])}) = 1

HistoryErrorFields ==
    {"name", "timestamps", "equity", "pnl", "pnl_pct", "volatility",
     "sharpe_ratio", "max_drawdown", "error"}

HistoryFields ==
    {"name", "timestamps", "equity", "pnl", "pnl_pct", "current_equity",
     "current_cash", "buying_power", "volatility", "sharpe_ratio",
     "max_drawdown"}

IsErrorHistory(rec) ==
    /\ DOMAIN rec = HistoryErrorFields
    /\ rec.timestamps = <<>> /\ rec.equity = <<>>
    /\ rec.pnl = <<>> /\ rec.pnl_pct = <<>>
    /\ SurdIsZero(rec.volatility)
    /\ SurdIsZero(rec.sharpe_ratio)
    /\ IsZero(rec.max_drawdown)

IsFullHistory(rec, data) ==
    /\ DOMAIN rec = HistoryFields
    /\ rec.equity = data.equity
    /\ Len(rec.timestamps) = Len(data.timestamp)
    /\ Len(rec.pnl) = Len(data.equity)
    /\ Len(rec.pnl_pct) = Len(data.equity)
    /\ rec.current_equity = data.snapshot.equity
    /\ rec.current_cash = data.snapshot.cash
    /\ rec.buying_power = data.snapshot.buying_power

\* C1: with N >= 1 accounts of which exactly one fails, portfolio_history
\* answers with N records in registry order; the failing account's record
\* alone has an error field, empty series and zero metrics, and every other
\* record is fully populated.
C1_HistoryIsolation ==
    (/\ result.op = "portfolio_history"
     /\ Len(accounts) >= 1
     /\ ExactlyOne(HistoryFaulty))
        => /\ result.value.status = 200
           /\ LET histories == result.value.body.accounts
              IN  /\ Len(histories) = Len(accounts)
                  /\ \A i \in 1..Len(accounts) :
                        /\ histories[i].name = accounts[i]
                        /\ IF HistoryFaulty(accounts[i])
                           THEN IsErrorHistory(histories[i])
                           ELSE IsFullHistory(histories[i], broker[accounts[i]])

C1_Witness ==
    /\ result.op = "portfolio_history"
    /\ Len(accounts) = 2
    /\ HistoryFaulty(accounts[1])
    /\ ~HistoryFaulty(accounts[2])
    /\ HasError(result.value.body.accounts[1])
    /\ ~HasError(result.value.body.accounts[2])
    /\ Len(result.value.body.accounts[2].equity) = 3

(***************************************************************************)
(* Claims about account_summary (SpecSummary).                             *)
(***************************************************************************)
SummaryFaulty(a) == broker[a].fault \in SummaryFaults

SummaryFields ==
    {"name", "equity", "cash", "buying_power", "portfolio_value",
     "positions_count", "day_profit_loss", "day_profit_loss_pct"}

\* The first N records are the accounts', in order: the failing account's has
\* an error field, the others are fully populated.
AccountRecordsIsolated(summaries) ==
    \A i \in 1..Len(accounts) :
        /\ summaries[i].name = accounts[i]
        /\ IF SummaryFaulty(accounts[i])
           THEN DOMAIN summaries[i] = {"name", "error"}
           ELSE /\ DOMAIN summaries[i] = SummaryFields
                /\ summaries[i].equity = broker[accounts[i]].snapshot.equity
                /\ summaries[i].cash = broker[accounts[i]].snapshot.cash
                /\ summaries[i].positions_count =
                       Len(broker[accounts[i]].positions)

SummaryCase ==
    /\ result.op = "account_summary"
    /\ Len(accounts) >= 1
    /\ ExactlyOne(SummaryFaulty)

\* C2 as stated: with N accounts of which exactly one fails, account_summary
\* returns N records, whatever the market-index fetch does.
C2_ExactlyNRecords ==
    SummaryCase =>
        /\ Len(result.value) = Len(accounts)
        /\ AccountRecordsIsolated(result.value)

\* C2 amended: it returns the N account records (one with an error field,
\* N-1 fully populated), followed by one market record exactly when the
\* market-index fetch succeeds with at least two bars.
C2_SummaryIsolation ==
    SummaryCase =>
        /\ Len(result.value) \in {Len(accounts), Len(accounts) + 1}
        /\ AccountRecordsIsolated(result.value)
        /\ Len(result.value) = Len(accounts) + 1
              <=> (~market.trade_fault /\ ~market.bars_fault
                      /\ Len(market.bars) >= 2)
        /\ Len(result.value) = Len(accounts) + 1
              => /\ result.value[Len(accounts) + 1].is_market
                 /\ ~HasError(result.value[Len(accounts) + 1])

C2_Witness ==
    /\ result.op = "account_summary"
    /\ Len(accounts) = 2
    /\ SummaryFaulty(accounts[1])
    /\ ~SummaryFaulty(accounts[2])
    /\ Len(result.value) = 3
    /\ HasError(result.value[1])
    /\ ~HasError(result.value[2])
    /\ result.value[3].is_market

(***************************************************************************)
(* Claims about the ranking of risk_metrics (SpecRanking).                 *)
(***************************************************************************)
RiskDone == result.op = "risk_metrics"

\* The positions of the accounts, in account order then position order.
RECURSIVE Collected(_)
Collected(n) ==
    IF n = 0 THEN <<>>
    ELSE Collected(n - 1) \o
         [i \in 1..Len(broker[accounts[n]].positions) |->
             LET pos == broker[accounts[n]].positions[i]
             IN  [symbol |-> pos.symbol,
                  market_value |-> pos.market_value,
                  pl_pct |-> pos.unrealized_plpc * Percent,
                  pl_day_pct |-> pos.change_today * Percent,
                  account |-> accounts[n]]]

\* The place of xs[p] when xs is ordered by day-change%, descending (dir = 1)
\* or ascending (dir = -1), equal day-change% keeping the input order.
Place(xs, p, dir) ==
    Cardinality({q \in 1..Len(xs) :
                    \/ dir * xs[q].pl_day_pct > dir * xs[p].pl_day_pct
                    \/ xs[q].pl_day_pct = xs[p].pl_day_pct /\ q < p}) + 1

Ranked(xs, dir) ==
    [r \in 1..Min2(5, Len(xs)) |->
        xs[CHOOSE p \in 1..Len(xs) : Place(xs, p, dir) = r]]

\* C3: top_gainers is the collected list ordered by day-change% descending
\* and cut to its first 5, top_losers the same ascending; equal day-change%
\* keep the input order; each list has min(5, n) elements.
C3_Ranking ==
    RiskDone =>
        LET all == Collected(Len(accounts))
        IN  /\ result.value.top_gainers = Ranked(all, 1)
            /\ result.value.top_losers = Ranked(all, -1)
            /\ Len(result.value.top_gainers) = Min2(5, Len(all))
            /\ Len(result.value.top_losers) = Min2(5, Len(all))

\* Six positions, the first two with equal day-change% and different
\* symbols: the ranking keeps their order and drops a position.
C3_Witness ==
    /\ RiskDone
    /\ LET all == Collected(Len(accounts))
       IN  /\ Len(all) = 6
           /\ all[1].symbol = "GLD" /\ all[2].symbol = "VOO"
           /\ all[6].symbol = "BND"
           /\ Len(broker[accounts[1]].positions) = 1
           /\ Len(result.value.top_gainers) = 5
           /\ result.value.top_gainers[1] = all[1]
           /\ result.value.top_gainers[2] = all[2]
           /\ result.value.top_losers[1] = all[6]

(***************************************************************************)
(* Claims about the allocation of risk_metrics (SpecRisk).                 *)
(***************************************************************************)
RECURSIVE SeqSum(_)
SeqSum(xs) == IF xs = <<>> THEN 0 ELSE Head(xs) + SeqSum(Tail(xs))

FetchFailed(a) == broker[a].fault \in {"list_positions", "get_account"}

Malformed(a) ==
    \/ broker[a].fault = "float"
    \/ \E i \in 1..Len(broker[a].positions) : broker[a].positions[i].bad # "none"

\* The account's try block raises at some point.
ProcessingFails(a) == FetchFailed(a) \/ Malformed(a)

\* Sum of the cash of the accounts in Counted.
CashOf(Counted(_)) ==
    SeqSum([i \in 1..Len(accounts) |->
               IF Counted(accounts[i]) THEN broker[accounts[i]].snapshot.cash
               ELSE 0])

\* Sum of the market values of the positions, of the accounts in Counted,
\* that have a market value and classify to bucket.
BucketOf(bucket, Counted(_)) ==
    SeqSum([i \in 1..Len(accounts) |->
               LET held == broker[accounts[i]].positions
               IN  SeqSum([j \in 1..Len(held) |->
                              IF /\ Counted(accounts[i])
                                 /\ held[j].bad # "market_value"
                                 /\ get_asset_class(held[j].symbol) = bucket
                              THEN held[j].market_value ELSE 0])])

AllocationIs(allocation, Counted(_), HasCash(_)) ==
    /\ DOMAIN allocation = AllocationKeys
    /\ allocation["Cash"] = CashOf(HasCash)
    /\ \A bucket \in AllocationKeys \ {"Cash"} :
          allocation[bucket] = BucketOf(bucket, Counted)

FullyProcessed(a) == ~ProcessingFails(a)
Fetched(a) == ~FetchFailed(a)
FetchedWithCash(a) == ~FetchFailed(a) /\ broker[a].fault # "float"

\* C4: the allocation has the six keys, Cash is the sum of the cash of the
\* accounts whose fetches succeeded and every other bucket the sum of the
\* market values of those accounts' positions of that class.  "Fetch
\* succeeded" is read either way: the answer arrived and parsed, or the
\* answer arrived.
C4_AllocationRollup ==
    RiskDone =>
        \/ AllocationIs(result.value.allocation, FullyProcessed, FullyProcessed)
        \/ AllocationIs(result.value.allocation, Fetched, FetchedWithCash)

\* C10: an account whose try block fails at any point contributes nothing:
\* the answer is the one of the registry without the failing accounts.
C10_AllOrNothing ==
    RiskDone =>
        result.value = risk_metrics(SelectSeq(accounts, FullyProcessed))

=============================================================================
